---------------------------- MODULE Spec2Model ----------------------------
(***************************************************************************)
(* A model of ctapipe's HillasReconstructor                                *)
(* (src/ctapipe/reco/hillas_reconstructor.py).                             *)
(*                                                                         *)
(* Numbers.  The code computes in IEEE floats; the model computes in exact *)
(* rational arithmetic, a rational being a pair <<n, d>> in lowest terms   *)
(* with d > 0, extended by the float specials the code tests for or        *)
(* produces: nan = <<0, 0>>, inf = <<1, 0>>, -inf = <<-1, 0>>.  A vector   *)
(* whose length is irrational                                              *)
(* once normalised is kept as a surd vector [v |-> <<x, y, z>>, s |-> q],  *)
(* standing for v / sqrt(q); an ordinary rational vector has s = 1.        *)
(***************************************************************************)
EXTENDS Integers, Sequences, FiniteSets, TLC

----------------------------------------------------------------------------
(* Exact rational arithmetic                                               *)

Abs(n) == IF n < 0 THEN -n ELSE n
Min(a, b) == IF a < b THEN a ELSE b

RECURSIVE GCD(_, _)
GCD(a, b) == IF b = 0 THEN Abs(a) ELSE GCD(b, a % b)

\* floats beyond the rationals
NaN == <<0, 0>>
PosInf == <<1, 0>>
NegInf == <<-1, 0>>
IsSpecial(x) == x[2] = 0
\* np.isnan(x)
IsNaN(x) == x = NaN

Sgn(n) == IF n < 0 THEN -1 ELSE IF n = 0 THEN 0 ELSE 1

\* the rational n/d in lowest terms, d > 0; n/0 is an infinity, 0/0 is nan
Over(n, d, g) == IF d < 0 THEN <<(-n) \div g, (-d) \div g>> ELSE <<n \div g, d \div g>>
Rat(n, d) == IF d = 0 THEN <<Sgn(n), 0>> ELSE Over(n, d, GCD(Abs(n), Abs(d)))

R(n) == <<n, 1>>
RZero == <<0, 1>>
ROne == <<1, 1>>
RIsZero(p) == p[1] = 0 /\ p[2] # 0
\* x == 0
IsZeroFloat(x) == RIsZero(x)

\* p + q for rationals, g the gcd of their denominators
AddOver(p, q, g) ==
    Rat(p[1] * (q[2] \div g) + q[1] * (p[2] \div g), (p[2] \div g) * q[2])
\* p + q: inf + -inf is nan
RAdd(p, q) ==
    IF IsNaN(p) \/ IsNaN(q) THEN NaN
    ELSE IF IsSpecial(p) /\ IsSpecial(q) THEN (IF p = q THEN p ELSE NaN)
    ELSE IF IsSpecial(p) THEN p
    ELSE IF IsSpecial(q) THEN q
    ELSE AddOver(p, q, GCD(p[2], q[2]))
RNeg(p) == <<-p[1], p[2]>>
RSub(p, q) == RAdd(p, RNeg(q))
\* p * q for rationals in lowest terms, g1 and g2 the gcds across
MulOver(p, q, g1, g2) ==
    <<(p[1] \div g1) * (q[1] \div g2), (p[2] \div g2) * (q[2] \div g1)>>
\* p * q: 0 * inf is nan
RMul(p, q) ==
    IF IsNaN(p) \/ IsNaN(q) THEN NaN
    ELSE IF IsSpecial(p) \/ IsSpecial(q) THEN <<Sgn(p[1]) * Sgn(q[1]), 0>>
    ELSE IF p[1] = 0 \/ q[1] = 0 THEN RZero
    ELSE MulOver(p, q, GCD(p[1], q[2]), GCD(q[1], p[2]))
\* 1 / q: 1 / 0 is inf, 1 / inf is 0
RInv(q) == IF IsNaN(q) THEN NaN ELSE IF IsSpecial(q) THEN RZero ELSE Rat(q[2], q[1])
\* p / q: 0 / 0 and inf / inf are nan
RDiv(p, q) == IF IsSpecial(p) /\ IsSpecial(q) THEN NaN ELSE RMul(p, RInv(q))
\* p < q: False when either is nan
RLess(p, q) == p[1] * q[2] < q[1] * p[2]

\* a Python list given by its entries
List(f) == SubSeq(f, 1, Len(f))

----------------------------------------------------------------------------
(* Rational 3-vectors and 3x3 matrices (numpy arrays of shape (3,), (3,3)) *)

Idx3 == {1, 2, 3}

VZero == <<RZero, RZero, RZero>>
\* an integer triple as a rational vector
IV(x, y, z) == <<R(x), R(y), R(z)>>

VAdd(u, w) == <<RAdd(u[1], w[1]), RAdd(u[2], w[2]), RAdd(u[3], w[3])>>
VSub(u, w) == <<RSub(u[1], w[1]), RSub(u[2], w[2]), RSub(u[3], w[3])>>
VScale(k, u) == <<RMul(k, u[1]), RMul(k, u[2]), RMul(k, u[3])>>
VNeg(u) == <<RNeg(u[1]), RNeg(u[2]), RNeg(u[3])>>
\* v1.dot(v2)
VDot(u, w) == RAdd(RAdd(RMul(u[1], w[1]), RMul(u[2], w[2])), RMul(u[3], w[3]))
\* np.cross(u, w)
VCross(u, w) ==
    << RSub(RMul(u[2], w[3]), RMul(u[3], w[2])),
       RSub(RMul(u[3], w[1]), RMul(u[1], w[3])),
       RSub(RMul(u[1], w[2]), RMul(u[2], w[1])) >>
VIsZero(u) == \A i \in Idx3 : RIsZero(u[i])

\* np.eye(3)
Eye3 == <<<<ROne, RZero, RZero>>, <<RZero, ROne, RZero>>, <<RZero, RZero, ROne>>>>
MZero == <<VZero, VZero, VZero>>
MAdd(A, B) == <<VAdd(A[1], B[1]), VAdd(A[2], B[2]), VAdd(A[3], B[3])>>
MSub(A, B) == <<VSub(A[1], B[1]), VSub(A[2], B[2]), VSub(A[3], B[3])>>
\* A @ u
MApply(A, u) == <<VDot(A[1], u), VDot(A[2], u), VDot(A[3], u)>>
\* the determinant of A
MDet(A) == VDot(A[1], VCross(A[2], A[3]))
\* the adjugate of A: its columns are the cross products of A's rows
Columns(c1, c2, c3) ==
    <<<<c1[1], c2[1], c3[1]>>, <<c1[2], c2[2], c3[2]>>, <<c1[3], c2[3], c3[3]>>>>
MAdj(A) == Columns(VCross(A[2], A[3]), VCross(A[3], A[1]), VCross(A[1], A[2]))

----------------------------------------------------------------------------
(* Surd vectors: [v, s] stands for v / sqrt(s), s a positive rational      *)

SV(v, s) == [v |-> v, s |-> s]
\* a rational vector as a surd vector
SVOf(v) == SV(v, ROne)
\* (n @ n.T) for the column vector n = v / sqrt(s): the rational matrix v v^T / s
SVOuter(n) ==
    <<VScale(RDiv(n.v[1], n.s), n.v), VScale(RDiv(n.v[2], n.s), n.v),
      VScale(RDiv(n.v[3], n.s), n.v)>>
\* the squared length of v / sqrt(s)
SVNorm2(n) == RDiv(VDot(n.v, n.v), n.s)
SVIsUnit(n) == SVNorm2(n) = ROne

----------------------------------------------------------------------------
(* line_line_intersection_3d                                               *)

\* what a call gives back: the exception it raised ("none": it returned) and
\* the value it returned
Returned(value) == [raised |-> "none", value |-> value]
Raised(exception) == [raised |-> exception, value |-> <<>>]
\* what np.linalg.inv raises on a singular matrix
LinAlgError == "LinAlgError"

\* np.array(X).sum(axis=0) over the first k entries of a list of matrices / vectors
RECURSIVE MSum(_, _)
MSum(Ms, k) == IF k = 0 THEN MZero ELSE MAdd(MSum(Ms, k - 1), Ms[k])
RECURSIVE VSum(_, _)
VSum(Vs, k) == IF k = 0 THEN VZero ELSE VAdd(VSum(Vs, k - 1), Vs[k])

\* norm_matrix = (n @ n.T) - np.eye(3)
NormMatrixOuterOnly(n) == SVOuter(n)
NormMatrix(n) == MSub(SVOuter(n), Eye3)

\* np.linalg.inv(S) @ C, LinAlgError when S is singular
InvApplyBy(S, C, det) ==
    IF RIsZero(det) THEN Raised(LinAlgError)
    ELSE Returned(VScale(RInv(det), MApply(MAdj(S), C)))
InvApply(S, C) == InvApplyBy(S, C, MDet(S))

\* zip() stops at the shorter of the two lists
\* the loop body's two lists, S and C, for k lines
NormMatrices(uvw_vectors, k) == List([i \in 1..k |-> NormMatrix(uvw_vectors[i])])
Offsets(S, origins, k) == List([i \in 1..k |-> MApply(S[i], origins[i])])
SumAndInvert(S, origins, k) == InvApply(MSum(S, k), VSum(Offsets(S, origins, k), k))
line_line_intersection_3d(uvw_vectors, origins) ==
    SumAndInvert(NormMatrices(uvw_vectors, Min(Len(uvw_vectors), Len(origins))),
                 origins, Min(Len(uvw_vectors), Len(origins)))

----------------------------------------------------------------------------
(* Angles.  An angle is kept as the direction <<c, s>> of (cos, sin): a    *)
(* pair of coprime integers, so that two angles are equal exactly when     *)
(* they are equal modulo 2 pi.                                             *)

LCM(a, b) == (a \div GCD(a, b)) * b

\* the direction of the rational pair (dx, dy) as coprime integers
Coprime2(a, b, g) == <<a \div g, b \div g>>
Whole2(a, b) == Coprime2(a, b, GCD(Abs(a), Abs(b)))
Prim2(dx, dy) == Whole2(dx[1] * (dy[2] \div GCD(dx[2], dy[2])),
                        dy[1] * (dx[2] \div GCD(dx[2], dy[2])))

\* np.arctan2(y, x); arctan2(0, 0) is 0, a nan argument gives nan (kept as
\* <<0, 0>>), and an infinite argument outweighs a finite one
ArcTan2(y, x) ==
    IF IsNaN(x) \/ IsNaN(y) THEN <<0, 0>>
    ELSE IF IsSpecial(x) \/ IsSpecial(y)
         THEN <<IF IsSpecial(x) THEN x[1] ELSE 0, IF IsSpecial(y) THEN y[1] ELSE 0>>
    ELSE IF RIsZero(x) /\ RIsZero(y) THEN <<1, 0>>
    ELSE Prim2(x, y)

\* the unit vector (cos psi, sin psi, 0) of any angle; (nan, nan, 0) for nan
CosSin0(psi) ==
    IF psi = <<0, 0>> THEN SV(<<NaN, NaN, RZero>>, ROne)
    ELSE SV(IV(psi[1], psi[2], 0), R(psi[1] * psi[1] + psi[2] * psi[2]))

----------------------------------------------------------------------------
(* Unit vectors                                                            *)

\* the rational vector v scaled by a positive factor to coprime integers
Coprime3(a, g) == IV(a[1] \div g, a[2] \div g, a[3] \div g)
Whole3(a) == Coprime3(a, GCD(GCD(Abs(a[1]), Abs(a[2])), Abs(a[3])))
TimesWhole(v, l) ==
    Whole3(<<v[1][1] * (l \div v[1][2]), v[2][1] * (l \div v[2][2]),
             v[3][1] * (l \div v[3][2])>>)
Prim3(v) == TimesWhole(v, LCM(LCM(v[1][2], v[2][2]), v[3][2]))

\* the floor of the square root of n >= 0, searched between lo and hi
RECURSIVE SqrtBetween(_, _, _)
SqrtBetween(n, lo, hi) ==
    IF lo >= hi THEN lo
    ELSE LET mid == (lo + hi + 1) \div 2
         IN  IF mid * mid <= n THEN SqrtBetween(n, mid, hi)
             ELSE SqrtBetween(n, lo, mid - 1)
ISqrt(n) == SqrtBetween(n, 0, Min(n, 46340))
RootSquared(r, n) == r * r = n
IsSquare(n) == RootSquared(ISqrt(n), n)

\* np.cos(psi), np.sin(psi) of a direction whose hypotenuse is an integer
Hyp(psi) == ISqrt(psi[1] * psi[1] + psi[2] * psi[2])
Cos(psi) == Rat(psi[1], Hyp(psi))
Sin(psi) == Rat(psi[2], Hyp(psi))

\* the unit vector along v # 0, in its one canonical form: rational (s = 1) when
\* the length of v is rational, else coprime integers over the root of their
\* squared length
OverRoot(p, n2, r) ==
    IF r * r = n2 THEN SV(VScale(Rat(1, r), p), ROne) ELSE SV(p, R(n2))
OverLength(p, n2) == OverRoot(p, n2, ISqrt(n2))
UnitOfWhole(p) == OverLength(p, p[1][1] * p[1][1] + p[2][1] * p[2][1] + p[3][1] * p[3][1])
UnitOf(v) == UnitOfWhole(Prim3(v))

\* np.cross of two surd vectors
SVCross(p, q) == SV(VCross(p.v, q.v), RMul(p.s, q.s))

\* what vec / np.linalg.norm(vec) is for the zero vector: numpy divides 0 by 0
\* with a RuntimeWarning and every component is nan; no ZeroDivisionError is raised
NaNVec == SV(<<NaN, NaN, NaN>>, ROne)
\* what the sum of two surd vectors is when no surd vector equals it
Inexact == SV(<<NaN, NaN, NaN>>, RZero)

\* normalise(vec): vec / np.linalg.norm(vec).  The except branch is never taken:
\* a zero length gives nan components, an infinite one 0 and nan components
NormaliseBy(vec, n2) ==
    IF vec = Inexact THEN Inexact
    ELSE IF IsNaN(n2) \/ RIsZero(n2) THEN NaNVec
    ELSE IF IsSpecial(n2)
         THEN SV(<<IF IsSpecial(vec.v[1]) THEN NaN ELSE RZero,
                   IF IsSpecial(vec.v[2]) THEN NaN ELSE RZero,
                   IF IsSpecial(vec.v[3]) THEN NaN ELSE RZero>>, ROne)
    ELSE UnitOf(vec.v)
normalise(vec) == NormaliseBy(vec, VDot(vec.v, vec.v))

----------------------------------------------------------------------------
(* Coordinate frames.  A pointing direction is kept with the camera axes   *)
(* it fixes: [P, e1, e2], an orthonormal rational basis in the sky         *)
(* (alt/az) Cartesian basis, P the pointing and e1, e2 the camera's x and  *)
(* y axes on the sky.  A sky direction (a SkyCoord in the horizon frame)   *)
(* is kept as its unit vector in that basis.                               *)

\* the sum x*e1 + y*e2 + z*P of a pointing's basis vectors
InBasis(pt, x, y, z) ==
    VAdd(VAdd(VScale(x, pt.e1), VScale(y, pt.e2)), VScale(z, pt.P))

\* SkyCoord(x, y, frame=CameraFrame(focal_length, telescope_pointing))
\*     .transform_to(horizon_frame): the direction of the camera point (x, y)
CameraToSky(x, y, focal_length, pt) == UnitOf(InBasis(pt, x, y, focal_length))

\* sky_coord.transform_to(CameraFrame(focal_length, telescope_pointing)):
\* the camera point <<x, y>> the sky direction d is imaged on
Imaged(focal_length, x, y, along) ==
    <<RDiv(RMul(focal_length, x), along), RDiv(RMul(focal_length, y), along)>>
SkyToCamera(d, focal_length, pt) ==
    Imaged(focal_length, VDot(d.v, pt.e1), VDot(d.v, pt.e2), VDot(d.v, pt.P))

\* spherical_to_cartesian(1, alt, -az): the sky direction in the ground-fixed
\* basis, whose azimuth runs clockwise; cartesian_to_spherical and az = -lon
\* are the same reflection back
FlipY(d) == SV(<<d.v[1], RNeg(d.v[2]), d.v[3]>>, d.s)

\* the axes of TiltedGroundFrame(pointing_direction) in the ground frame: the
\* camera axes and the pointing, reflected into the ground-fixed basis
Reflected(v) == <<v[1], RNeg(v[2]), v[3]>>
TiltedAxes(pt) == [tx |-> Reflected(pt.e1), ty |-> Reflected(pt.e2), tz |-> Reflected(pt.P)]

\* SkyCoord(*pos, frame=GroundFrame()).transform_to(tilted_frame).cartesian.xyz
GroundToTilted(pos, pt) ==
    <<VDot(pos, Reflected(pt.e1)), VDot(pos, Reflected(pt.e2)), VDot(pos, Reflected(pt.P))>>

\* project_to_ground(SkyCoord(x, y, frame=tilted_frame)): the point of the
\* ground plane z = 0 that lies on the line through (x, y, 0) along the pointing
Along(q, tz) == VSub(q, VScale(RDiv(q[3], tz[3]), tz))
project_to_ground(x, y, pt) ==
    Along(VAdd(VScale(x, Reflected(pt.e1)), VScale(y, Reflected(pt.e2))), Reflected(pt.P))

----------------------------------------------------------------------------
(* Ordered dicts: a Python dict is a sequence of <<key, value>> pairs in   *)
(* insertion order, its keys distinct.                                     *)

Keys(d) == List([i \in 1..Len(d) |-> d[i][1]])
Values(d) == List([i \in 1..Len(d) |-> d[i][2]])
KeySet(d) == {d[i][1] : i \in 1..Len(d)}
\* d[k]
Get(d, k) == d[CHOOSE i \in 1..Len(d) : d[i][1] = k][2]
\* d[k] = v: an existing key keeps its place
DictSet(d, k, v) ==
    IF k \in KeySet(d)
    THEN List([i \in 1..Len(d) |-> IF d[i][1] = k THEN <<k, v>> ELSE d[i]])
    ELSE Append(d, <<k, v>>)

----------------------------------------------------------------------------
(* HillasPlane                                                             *)

\* HillasPlane.__init__(p1, p2, telescope_position, weight)
PlaneWithNormAlongC(a, b, c, telescope_position, weight) ==
    [ pos |-> telescope_position,
      a |-> a,
      b |-> b,
      c |-> c,
      norm |-> normalise(c),
      weight |-> weight ]
PlaneWith(a, b, c, telescope_position, weight) ==
    [ pos |-> telescope_position,
      a |-> a,
      b |-> b,
      c |-> c,
      norm |-> normalise(SVCross(a, c)),
      weight |-> weight ]
PlaneThrough(a, b, telescope_position, weight) ==
    PlaneWith(a, b, SVCross(SVCross(a, b), a), telescope_position, weight)
HillasPlane(p1, p2, telescope_position, weight) ==
    PlaneThrough(FlipY(p1), FlipY(p2), telescope_position, weight)

----------------------------------------------------------------------------
(* estimate_direction                                                      *)

\* k * (v / sqrt(s))
SVScale(k, p) == SV(VScale(k, p.v), p.s)
SVNeg(p) == SV(VNeg(p.v), p.s)
\* the square root of a rational that is a square
RSqrt(q) == Rat(ISqrt(q[1]), ISqrt(q[2]))
RIsSquare(q) == q[1] >= 0 /\ IsSquare(q[1]) /\ IsSquare(q[2])
\* p + q
SVAddBy(p, q, ratio) ==
    IF RIsSquare(ratio) THEN SV(VAdd(p.v, VScale(RSqrt(ratio), q.v)), p.s)
    ELSE Inexact
SVAdd(p, q) ==
    IF p = Inexact \/ q = Inexact THEN Inexact
    ELSE IF VIsZero(q.v) THEN p
    ELSE IF VIsZero(p.v) THEN q
    ELSE IF p.s = q.s THEN SV(VAdd(p.v, q.v), p.s)
    ELSE SVAddBy(p, q, RDiv(p.s, q.s))

\* np.sum(crossings, axis=0) over the first k crossings
RECURSIVE SVSum(_, _)
SVSum(cs, k) == IF k = 0 THEN SVOf(VZero) ELSE SVAdd(SVSum(cs, k - 1), cs[k])

\* itertools.combinations(range(1, n + 1), 2), in its order
RECURSIVE Pairs(_, _, _)
Pairs(n, i, j) ==
    IF i >= n THEN <<>>
    ELSE IF j > n THEN Pairs(n, i + 1, i + 2)
    ELSE <<<<i, j>>>> \o Pairs(n, i, j + 1)
Combinations2(n) == Pairs(n, 1, 2)

\* an angle in [0, pi] is kept by its cosine: the sign and the square of the cosine
AngleOfCos(sgn, cos2) == [sgn |-> sgn, cos2 |-> cos2]
NaNAngle == AngleOfCos(0, NaN)

\* angle(v1, v2): arccos(clip(v1.v2 / (|v1| |v2|))); nan when the quotient is,
\* as it is for a zero vector (0 / 0) and for a vector with a nan or inf component
ArcCos(d, n) ==
    IF IsSpecial(d) \/ IsSpecial(n) \/ RIsZero(n) THEN NaNAngle
    ELSE AngleOfCos(Sgn(d[1]), RDiv(RMul(d, d), n))
angle(v1, v2) == ArcCos(VDot(v1.v, v2.v), RMul(VDot(v1.v, v1.v), VDot(v2.v, v2.v)))

\* lines 334..346: the crossing of one pair of planes, taken to the upper
\* solution and weighted
UpperAsIs(crossing) == crossing
Upper(crossing) == IF RLess(crossing.v[3], RZero) THEN SVNeg(crossing) ELSE crossing
CrossingUnweighted(p1, p2) == Upper(SVCross(p1.norm, p2.norm))
Crossing(p1, p2) ==
    SVScale(RMul(p1.weight, p2.weight), Upper(SVCross(p1.norm, p2.norm)))

\* what np.average raises when the weights sum to zero (no crossings at all)
ZeroDivisionError == "ZeroDivisionError"

\* np.average(values, weights) of one value or more: nan when a value is nan,
\* the common value when all values agree, else kept as the values with their
\* weights
WeightedAverage(values, weights) ==
    IF \E i \in 1..Len(values) : values[i] = NaNAngle THEN NaNAngle
    ELSE IF \A i \in 1..Len(values) : values[i] = values[1] THEN values[1]
    ELSE [ mean_of |-> values, weights |-> weights ]

\* estimate_direction(): <<result, err_est_dir>>; with no crossing at all
\* np.average raises
\* lines 332..346: the weighted crossing of every pair of planes
Crossings(planes, combos) ==
    List([k \in 1..Len(combos) |-> Crossing(planes[combos[k][1]], planes[combos[k][2]])])
\* lines 349..353
OffAnglesToMirrored(result, crossings) ==
    List([k \in 1..Len(crossings) |-> angle(FlipY(result), crossings[k])])
OffAngles(result, crossings) ==
    List([k \in 1..Len(crossings) |-> angle(result, crossings[k])])
ErrEstDirRisingWeights(off_angles) ==
    WeightedAverage(off_angles, List([k \in 1..Len(off_angles) |-> k]))
ErrEstDir(off_angles) ==
    WeightedAverage(off_angles, List([k \in 1..Len(off_angles) |-> 3]))
DirectionWith(result, crossings) ==
    IF Len(crossings) = 0 THEN Raised(ZeroDivisionError)
    ELSE Returned(<<result, ErrEstDir(OffAngles(result, crossings))>>)
DirectionOf(crossings) ==
    DirectionWith(normalise(SVSum(crossings, Len(crossings))), crossings)
estimate_direction(hillas_planes) ==
    DirectionOf(Crossings(Values(hillas_planes), Combinations2(Len(hillas_planes))))

----------------------------------------------------------------------------
(* The inputs of predict                                                   *)

\* the telescopes of the subarray
TelIds == {1, 2, 3}

\* subarray.positions[tel_id], in the ground frame
TelPosition(tel_id) ==
    CASE tel_id = 1 -> IV(3, 0, 0)
      [] tel_id = 2 -> IV(0, 3, 0)
      [] OTHER -> IV(-3, 0, 0)

\* subarray.tel[tel_id].optics.equivalent_focal_length
FocalLength(tel_id) == R(4)

\* pointing directions with the camera axes they fix
Zenith == [P |-> IV(0, 0, 1), e1 |-> IV(1, 0, 0), e2 |-> IV(0, 1, 0)]
\* a pointing at the horizon, due north: the camera's x axis points down
Level == [P |-> IV(1, 0, 0), e1 |-> IV(0, 0, -1), e2 |-> IV(0, 1, 0)]

\* a HillasParametersContainer
Moments(x, y, psi, intensity, length, width) ==
    [ x |-> x, y |-> y, psi |-> psi, intensity |-> intensity,
      length |-> length, width |-> width ]

\* the images of a shower made up for the test of the whole chain: every
\* centre of gravity at the camera point (-3, 0), every main axis along the line
\* from the telescope to one point of the tilted frame, (0, 0)
SyntheticImageOf(tel_id, width) ==
    CASE tel_id = 1 -> Moments(R(-3), R(0), <<-1, 0>>, R(2), Rat(1, 5), width)
      [] tel_id = 2 -> Moments(R(-3), R(0), <<0, 1>>, R(3), Rat(1, 5), width)
      [] OTHER -> Moments(R(-3), R(0), <<1, 0>>, R(3), Rat(1, 5), width)

\* the images of a shower from the horizon: every main axis along the camera's
\* y axis, so that with all telescopes at the zenith every plane holds the
\* horizontal line along y
HorizontalImageOf(tel_id, width) ==
    CASE tel_id = 1 -> Moments(R(-3), R(0), <<0, 1>>, R(2), Rat(1, 5), width)
      [] tel_id = 2 -> Moments(R(0), R(0), <<0, 1>>, R(3), Rat(1, 5), width)
      [] OTHER -> Moments(R(3), R(0), <<0, 1>>, R(1), Rat(3, 10), width)

\* the images of a shower of which telescope 3 saw no light: its intensity is 0
DarkImageOf(tel_id, width) ==
    CASE tel_id = 1 -> Moments(R(-3), R(0), <<1, 0>>, R(2), Rat(1, 5), width)
      [] tel_id = 2 -> Moments(R(0), R(3), <<0, 1>>, R(3), Rat(1, 5), width)
      [] OTHER -> Moments(R(3), R(0), <<0, 1>>, R(0), Rat(3, 10), width)

\* the image of one telescope in one of the events, with the given width
ImageOf(tel_id, event, width) ==
    CASE event = 3 -> SyntheticImageOf(tel_id, width)
      [] event = 4 -> HorizontalImageOf(tel_id, width)
      [] event = 5 -> DarkImageOf(tel_id, width)
      [] tel_id = 1 ->
           Moments(R(-3), R(0), IF event = 1 THEN <<1, 0>> ELSE <<0, 1>>,
                   R(2), Rat(1, 5), width)
      [] tel_id = 2 ->
           Moments(R(0), R(3), IF event = 1 THEN <<0, 1>> ELSE <<1, 0>>,
                   R(3), Rat(1, 5), width)
      [] OTHER ->
           Moments(R(3), R(0), IF event = 1 THEN <<-1, 0>> ELSE <<0, 1>>,
                   R(1), Rat(3, 10), width)

----------------------------------------------------------------------------
(* The steps of predict, as functions of what they read                    *)

TooFewTelescopesException == "TooFewTelescopesException"
InvalidWidthException == "InvalidWidthException"

\* lines 195..210: the exception the checks raise, "none" when they pass
ValidateAtLeastOne(hillas_dict) ==
    IF Len(hillas_dict) < 1 THEN TooFewTelescopesException
    ELSE IF \E i \in 1..Len(hillas_dict) : IsNaN(hillas_dict[i][2].width)
         THEN InvalidWidthException
    ELSE IF \E i \in 1..Len(hillas_dict) : IsZeroFloat(hillas_dict[i][2].width)
         THEN InvalidWidthException
    ELSE "none"
ValidateNaNOnly(hillas_dict) ==
    IF Len(hillas_dict) < 2 THEN TooFewTelescopesException
    ELSE IF \E i \in 1..Len(hillas_dict) : IsNaN(hillas_dict[i][2].width)
         THEN InvalidWidthException
    ELSE "none"
ValidateZeroOnly(hillas_dict) ==
    IF Len(hillas_dict) < 2 THEN TooFewTelescopesException
    ELSE IF \E i \in 1..Len(hillas_dict) : IsZeroFloat(hillas_dict[i][2].width)
         THEN InvalidWidthException
    ELSE "none"
Validate(hillas_dict) ==
    IF Len(hillas_dict) < 2 THEN TooFewTelescopesException
    ELSE IF \E i \in 1..Len(hillas_dict) : IsNaN(hillas_dict[i][2].width)
         THEN InvalidWidthException
    ELSE IF \E i \in 1..Len(hillas_dict) : IsZeroFloat(hillas_dict[i][2].width)
         THEN InvalidWidthException
    ELSE "none"

\* lines 278..296: the sky directions of the centre of gravity and of the
\* point 0.1 m along the main axis
CogCoord(tel_id, moments, telescopes_pointings) ==
    CameraToSky(moments.x, moments.y, FocalLength(tel_id),
                telescopes_pointings[tel_id])
P2Coord(tel_id, moments, telescopes_pointings) ==
    CameraToSky(RAdd(moments.x, RMul(Rat(1, 10), Cos(moments.psi))),
                RAdd(moments.y, RMul(Rat(1, 10), Sin(moments.psi))),
                FocalLength(tel_id), telescopes_pointings[tel_id])

\* lines 301..309: angle_psi_corr
PsiBetween(cog_sky_to_parallel, p2_sky_to_parallel) ==
    ArcTan2(RSub(cog_sky_to_parallel[2], p2_sky_to_parallel[2]),
            RSub(cog_sky_to_parallel[1], p2_sky_to_parallel[1]))
AnglePsiCorr(tel_id, moments, telescopes_pointings, array_pointing) ==
    PsiBetween(SkyToCamera(CogCoord(tel_id, moments, telescopes_pointings),
                           FocalLength(tel_id), array_pointing),
               SkyToCamera(P2Coord(tel_id, moments, telescopes_pointings),
                           FocalLength(tel_id), array_pointing))

\* lines 312..317: the plane of one telescope
PlaneOf(tel_id, moments, telescopes_pointings) ==
    HillasPlane(CogCoord(tel_id, moments, telescopes_pointings),
                P2Coord(tel_id, moments, telescopes_pointings),
                TelPosition(tel_id),
                RMul(moments.intensity, RDiv(moments.length, moments.width)))

\* the loop of initialize_hillas_planes over the first k items of hillas_dict:
\* the corrected angles it leaves in corrected_angle_dict
RECURSIVE CorrectedAfter(_, _, _, _, _)
CorrectedAfter(corrected, hillas_dict, telescopes_pointings, array_pointing, k) ==
    IF k = 0 THEN corrected
    ELSE DictSet(CorrectedAfter(corrected, hillas_dict, telescopes_pointings,
                                array_pointing, k - 1),
                 hillas_dict[k][1],
                 AnglePsiCorr(hillas_dict[k][1], hillas_dict[k][2],
                              telescopes_pointings, array_pointing))

\* initialize_hillas_planes: the new hillas_planes and corrected_angle_dict
initialize_hillas_planes(hillas_dict, telescopes_pointings, array_pointing, divergent, corrected) ==
    [ hillas_planes |->
          List([i \in 1..Len(hillas_dict) |->
              <<hillas_dict[i][1],
                PlaneOf(hillas_dict[i][1], hillas_dict[i][2], telescopes_pointings)>>]),
      corrected_angle_dict |->
          IF divergent
          THEN CorrectedAfter(corrected, hillas_dict, telescopes_pointings,
                              array_pointing, Len(hillas_dict))
          ELSE corrected ]

\* [h.psi for h in hillas_dict.values()]
NativePsi(hillas_dict) ==
    List([i \in 1..Len(hillas_dict) |-> hillas_dict[i][2].psi])

\* lines 376..379: the angles estimate_core_position takes
PsiOf(hillas_dict, divergent, corrected) ==
    IF divergent THEN Values(corrected) ELSE NativePsi(hillas_dict)

\* estimate_core_position: <<core_x, core_y>>
\* lines 380..381
UvwVectors(psi) == List([i \in 1..Len(psi) |-> CosSin0(psi[i])])
\* lines 386..393
TiltedPositions(planes, array_pointing) ==
    List([i \in 1..Len(planes) |-> GroundToTilted(planes[i][2].pos, array_pointing)])
\* lines 397..403
XY(core_pos) == Returned(<<core_pos[1], core_pos[2]>>)
CoreOnGround(core_position, array_pointing) ==
    IF core_position.raised # "none" THEN core_position
    ELSE XY(project_to_ground(core_position.value[1], core_position.value[2],
                              array_pointing))
estimate_core_position(hillas_dict, array_pointing, planes, divergent, corrected) ==
    CoreOnGround(line_line_intersection_3d(
                     UvwVectors(PsiOf(hillas_dict, divergent, corrected)),
                     TiltedPositions(planes, array_pointing)),
                 array_pointing)

\* np.linalg.norm(x): the root of a rational, kept by its square
RootOf(q) == [root_of |-> q]

\* estimate_h_max
Norm(x) == IF x.raised # "none" THEN x ELSE Returned(RootOf(VDot(x.value, x.value)))
estimate_h_max(planes) ==
    Norm(line_line_intersection_3d(List([i \in 1..Len(planes) |-> planes[i][2].a]),
                                   List([i \in 1..Len(planes) |-> planes[i][2].pos])))

\* np.mean of the intensities
RECURSIVE SumIntensity(_, _)
SumIntensity(hillas_dict, k) ==
    IF k = 0 THEN RZero
    ELSE RAdd(SumIntensity(hillas_dict, k - 1), hillas_dict[k][2].intensity)
MeanIntensity(hillas_dict) ==
    RDiv(SumIntensity(hillas_dict, Len(hillas_dict)), R(Len(hillas_dict)))

\* lines 232..250: the ReconstructedGeometryContainer
ResultOfValidWhenFinite(hillas_dict, direction, err_est_dir, core_pos, h_max) ==
    [ alt_az |-> FlipY(direction),
      core_x |-> core_pos[1],
      core_y |-> core_pos[2],
      tel_ids |-> Keys(hillas_dict),
      average_intensity |-> MeanIntensity(hillas_dict),
      is_valid |-> direction # NaNVec,
      alt_uncert |-> err_est_dir,
      h_max |-> h_max ]
ResultOf(hillas_dict, direction, err_est_dir, core_pos, h_max) ==
    [ alt_az |-> FlipY(direction),
      core_x |-> core_pos[1],
      core_y |-> core_pos[2],
      tel_ids |-> Keys(hillas_dict),
      average_intensity |-> MeanIntensity(hillas_dict),
      is_valid |-> TRUE,
      alt_uncert |-> err_est_dir,
      h_max |-> h_max ]

----------------------------------------------------------------------------
(* predict, step by step.  A HillasReconstructor instance is the record    *)
(* of its three fields; the frame of a predict call holds its arguments    *)
(* and locals and the step it is at.                                       *)

\* lines 158..162: HillasReconstructor.__init__
NewInstance ==
    [ hillas_planes |-> <<>>, divergent_mode |-> FALSE, corrected_angle_dict |-> <<>> ]

NoDirection == <<NaNVec, NaNAngle>>
NoCore == <<NaN, NaN>>
NoOutcome == Raised("pending")

\* the frame of a call that has not started
IdleFrame ==
    [ pc |-> "idle",
      hillas_dict |-> <<>>,
      array_pointing |-> Zenith,
      pointings_given |-> FALSE,
      telescopes_pointings |-> <<Zenith, Zenith, Zenith>>,
      direction |-> NoDirection,
      core_pos |-> NoCore,
      outcome |-> NoOutcome ]

\* a frame left by an exception
Raise(frame, exception) ==
    [frame EXCEPT !.pc = "done", !.outcome = Raised(exception)]

\* lines 195..219: the entry of predict(hillas_dict, subarray, array_pointing,
\* telescopes_pointings); telescopes_pointings is None when not pointings_given
EnteredResettingMode(inst, frame, failed) ==
    IF failed # "none" THEN [inst |-> inst, frame |-> Raise(frame, failed)]
    ELSE [ inst |-> [inst EXCEPT !.divergent_mode = frame.pointings_given,
                                 !.corrected_angle_dict = <<>>],
           frame |-> [frame EXCEPT !.pc = "initialize_hillas_planes"] ]
EnteredSettingModeFirst(inst, frame, failed) ==
    [ inst |-> IF frame.pointings_given
               THEN [inst EXCEPT !.divergent_mode = TRUE, !.corrected_angle_dict = <<>>]
               ELSE inst,
      frame |-> IF failed # "none" THEN Raise(frame, failed)
                ELSE [frame EXCEPT !.pc = "initialize_hillas_planes"] ]
Entered(inst, frame, failed) ==
    IF failed # "none" THEN [inst |-> inst, frame |-> Raise(frame, failed)]
    ELSE [ inst |-> IF frame.pointings_given
                    THEN [inst EXCEPT !.divergent_mode = TRUE,
                                      !.corrected_angle_dict = <<>>]
                    ELSE inst,
           frame |-> [frame EXCEPT !.pc = "initialize_hillas_planes"] ]
Enter(inst, hillas_dict, array_pointing, pointings_given, telescopes_pointings) ==
    Entered(inst,
            [ IdleFrame EXCEPT
                !.hillas_dict = hillas_dict,
                !.array_pointing = array_pointing,
                !.pointings_given = pointings_given,
                !.telescopes_pointings =
                    IF pointings_given THEN telescopes_pointings
                    ELSE <<array_pointing, array_pointing, array_pointing>> ],
            Validate(hillas_dict))

\* d.update(items), over the first k items
RECURSIVE Updated(_, _, _)
Updated(d, items, k) ==
    IF k = 0 THEN d ELSE DictSet(Updated(d, items, k - 1), items[k][1], items[k][2])
InitializedKeepingPlanes(inst, frame, new) ==
    [ inst |-> [inst EXCEPT !.hillas_planes = Updated(inst.hillas_planes, new.hillas_planes,
                                                      Len(new.hillas_planes)),
                            !.corrected_angle_dict = new.corrected_angle_dict],
      frame |-> [frame EXCEPT !.pc = "estimate_direction"] ]
\* lines 221..223
Initialized(inst, frame, new) ==
    [ inst |-> [inst EXCEPT !.hillas_planes = new.hillas_planes,
                            !.corrected_angle_dict = new.corrected_angle_dict],
      frame |-> [frame EXCEPT !.pc = "estimate_direction"] ]
StepInitializeHillasPlanes(inst, frame) ==
    Initialized(inst, frame,
                initialize_hillas_planes(frame.hillas_dict, frame.telescopes_pointings,
                    frame.array_pointing, inst.divergent_mode,
                    inst.corrected_angle_dict))

\* line 226
WithDirection(inst, frame, got) ==
    [ inst |-> inst,
      frame |-> IF got.raised # "none" THEN Raise(frame, got.raised)
                ELSE [frame EXCEPT !.pc = "estimate_core_position",
                                   !.direction = got.value] ]
StepEstimateDirection(inst, frame) ==
    WithDirection(inst, frame, estimate_direction(inst.hillas_planes))

\* line 229
WithCore(inst, frame, got) ==
    [ inst |-> inst,
      frame |-> IF got.raised # "none" THEN Raise(frame, got.raised)
                ELSE [frame EXCEPT !.pc = "estimate_h_max", !.core_pos = got.value] ]
StepEstimateCorePosition(inst, frame) ==
    WithCore(inst, frame,
             estimate_core_position(frame.hillas_dict, frame.array_pointing,
                 inst.hillas_planes, inst.divergent_mode, inst.corrected_angle_dict))

\* lines 232..252
WithHMax(inst, frame, got) ==
    [ inst |-> inst,
      frame |-> IF got.raised # "none" THEN Raise(frame, got.raised)
                ELSE [frame EXCEPT
                        !.pc = "done",
                        !.outcome = Returned(ResultOf(frame.hillas_dict,
                                        frame.direction[1], frame.direction[2],
                                        frame.core_pos, got.value))] ]
StepEstimateHMax(inst, frame) == WithHMax(inst, frame, estimate_h_max(inst.hillas_planes))

\* the rest of a call from each step on
FromHMax(m) == IF m.frame.pc = "done" THEN m ELSE StepEstimateHMax(m.inst, m.frame)
FromCore(m) ==
    IF m.frame.pc = "done" THEN m ELSE FromHMax(StepEstimateCorePosition(m.inst, m.frame))
FromDirection(m) == FromCore(StepEstimateDirection(m.inst, m.frame))
FromEntry(m) ==
    IF m.frame.pc = "done" THEN m
    ELSE FromDirection(StepInitializeHillasPlanes(m.inst, m.frame))
Left(m) == [inst |-> m.inst, outcome |-> m.frame.outcome]

\* lines 164..252: predict run from its entry to its end with no other call
\* in between: the instance it leaves and what it returns or raises
predict(inst, hillas_dict, array_pointing, pointings_given, telescopes_pointings) ==
    Left(FromEntry(Enter(inst, hillas_dict, array_pointing, pointings_given,
                         telescopes_pointings)))

----------------------------------------------------------------------------
(* SubarrayDescription (src/ctapipe/instrument/subarray.py) and            *)
(* TelListToMaskTransform (src/ctapipe/io/tableio.py).  A numpy array is a *)
(* sequence, its index i (from 0) at place i + 1; None and a list are kept *)
(* apart by a flag.                                                        *)

None == [is_none |-> TRUE, items |-> <<>>]
Some(items) == [is_none |-> FALSE, items |-> items]

ValueError == "ValueError"
IndexError == "IndexError"
KeyError == "KeyError"

\* numpy indexing arr[i]: a negative i counts from the end, and i is in range
\* when -len <= i < len
InRange(n, i) == -n <= i /\ i < n
Wrapped(n, i) == IF i < 0 THEN n + i ELSE i
NpGet(arr, i) == arr[Wrapped(Len(arr), i) + 1]
NpSet(arr, i, v) == [arr EXCEPT ![Wrapped(Len(arr), i) + 1] = v]

\* np.max of a non-empty array
RECURSIVE MaxOf(_, _)
MaxOf(arr, k) ==
    IF k = 1 THEN arr[1]
    ELSE IF arr[k] > MaxOf(arr, k - 1) THEN arr[k] ELSE MaxOf(arr, k - 1)

\* SubarrayDescription.__init__(name, tel_positions, tel_descriptions)
SubarrayDescription(name, tel_positions, tel_descriptions) ==
    IF KeySet(tel_positions) # KeySet(tel_descriptions) THEN Raised(ValueError)
    ELSE Returned([name |-> name, positions |-> tel_positions, tels |-> tel_descriptions])

\* the properties num_tels, tel_ids and tel_indices
num_tels(self) == Len(self.tels)
tel_ids(self) == Keys(self.tels)
tel_indices(self) == List([ii \in 1..Len(self.tels) |-> <<self.tels[ii][1], ii - 1>>])

\* tel_index_array: np.zeros(np.max(self.tel_ids) + 1) - 1, then idx[key] = val
\* for the first k items of tel_indices; np.max raises ValueError on an empty array
MinusOnes(n) == List([i \in 1..n |-> -1])
RECURSIVE IndexArrayAfter(_, _, _)
IndexArrayAfter(idx, items, k) ==
    IF k = 0 THEN idx
    ELSE NpSet(IndexArrayAfter(idx, items, k - 1), items[k][1], items[k][2])
IndexArrayStartingZero(self) ==
    IF num_tels(self) = 0 THEN Raised(ValueError)
    ELSE Returned(IndexArrayAfter(
             List([i \in 1..(MaxOf(tel_ids(self), num_tels(self)) + 1) |-> 0]),
             tel_indices(self), num_tels(self)))
tel_index_array(self) ==
    IF num_tels(self) = 0 THEN Raised(ValueError)
    ELSE Returned(IndexArrayAfter(MinusOnes(MaxOf(tel_ids(self), num_tels(self)) + 1),
                                  tel_indices(self), num_tels(self)))

\* tel_ids_to_indices(tel_ids): self.tel_index_array[tel_ids]
IndexedBy(idx, ids) ==
    IF idx.raised # "none" THEN idx
    ELSE IF \E k \in 1..Len(ids) : ~InRange(Len(idx.value), ids[k])
         THEN Raised(IndexError)
    ELSE Returned(List([k \in 1..Len(ids) |-> NpGet(idx.value, ids[k])]))
tel_ids_to_indices(self, ids) == IndexedBy(tel_index_array(self), ids)

\* tel_ids_to_mask(tel_ids): mask = np.zeros(num_tels, dtype=bool);
\* mask[indices] = True
MaskSet(n, indices) ==
    IF indices.raised # "none" THEN indices
    ELSE IF \E k \in 1..Len(indices.value) : ~InRange(n, indices.value[k])
         THEN Raised(IndexError)
    ELSE Returned(List([i \in 1..n |->
             \E k \in 1..Len(indices.value) : Wrapped(n, indices.value[k]) + 1 = i]))
tel_ids_to_mask(self, ids) == MaskSet(num_tels(self), tel_ids_to_indices(self, ids))

\* tel_mask_to_tel_ids(tel_mask): self.tel_ids[tel_mask], the ids at the True
\* places; a mask of another length raises IndexError
RECURSIVE Compressed(_, _, _)
Compressed(arr, mask, k) ==
    IF k = 0 THEN <<>>
    ELSE IF mask[k] THEN Append(Compressed(arr, mask, k - 1), arr[k])
    ELSE Compressed(arr, mask, k - 1)
tel_mask_to_tel_ids(self, tel_mask) ==
    IF Len(tel_mask) # num_tels(self) THEN Raised(IndexError)
    ELSE Returned(Compressed(tel_ids(self), tel_mask, Len(tel_mask)))

\* TelListToMaskTransform(subarray): __call__(value) and inverse(value)
Wrap(outcome) ==
    IF outcome.raised # "none" THEN outcome ELSE Returned(Some(outcome.value))
TelListToMaskTransform_call(subarray, value) ==
    IF value.is_none THEN Returned(None)
    ELSE Wrap(tel_ids_to_mask(subarray, value.items))
TelListToMaskTransform_inverse(subarray, value) ==
    IF value.is_none THEN Returned(None)
    ELSE Wrap(tel_mask_to_tel_ids(subarray, value.items))

\* sorted(tel_ids)
RECURSIVE Inserted(_, _)
Inserted(sorted, x) ==
    IF sorted = <<>> THEN <<x>>
    ELSE IF x < Head(sorted) THEN <<x>> \o sorted
    ELSE <<Head(sorted)>> \o Inserted(Tail(sorted), x)
RECURSIVE Sorted(_, _)
Sorted(ids, k) == IF k = 0 THEN <<>> ELSE Inserted(Sorted(ids, k - 1), ids[k])

\* {tid: d[tid] for tid in tel_ids}, over the first k ids
RECURSIVE Picked(_, _, _)
Picked(d, ids, k) ==
    IF k = 0 THEN <<>>
    ELSE DictSet(Picked(d, ids, k - 1), ids[k], Get(d, ids[k]))

\* the name of a selection: the name given, or self.name + "_" + the ranges
\* of the sorted ids, kept as the name with the sorted ids after it
SelectionName(self, ids, name) ==
    IF name.is_none
    THEN [base |-> self.name.base,
          selections |-> Append(self.name.selections, Sorted(ids, Len(ids)))]
    ELSE [base |-> name.items, selections |-> <<>>]

\* select_subarray(tel_ids, name): self as it is left and the new subarray
\* or the KeyError of an id that self does not have
SelectSortedFirst(self, ids, name) ==
    [ self |-> self,
      out |-> IF \E k \in 1..Len(ids) : ids[k] \notin KeySet(self.positions)
              THEN Raised(KeyError)
              ELSE SubarrayDescription(
                       SelectionName(self, ids, name),
                       Picked(self.positions, Sorted(ids, Len(ids)), Len(ids)),
                       Picked(self.tels, Sorted(ids, Len(ids)), Len(ids))) ]
select_subarray(self, ids, name) ==
    [ self |-> self,
      out |-> IF \E k \in 1..Len(ids) : ids[k] \notin KeySet(self.positions)
              THEN Raised(KeyError)
              ELSE SubarrayDescription(SelectionName(self, ids, name),
                                       Picked(self.positions, ids, Len(ids)),
                                       Picked(self.tels, ids, Len(ids))) ]

----------------------------------------------------------------------------
(* The state                                                               *)

VARIABLES
    hillas_planes,          \* self.hillas_planes: tel_id -> HillasPlane
    divergent_mode,         \* self.divergent_mode
    corrected_angle_dict,   \* self.corrected_angle_dict: tel_id -> angle
    calls,                  \* the frame of the predict call of each caller
    ncalls,                 \* the predict calls made so far
    lines,                  \* the lines handed to line_line_intersection_3d
    lines_out,              \* what line_line_intersection_3d gave for them
    vec,                    \* the vector handed to normalise
    vec_out,                \* what normalise gave for it
    subarray,               \* a SubarrayDescription
    tel_list,               \* the value handed to TelListToMaskTransform
    tel_mask,               \* what the transform made of it
    tel_back,               \* what the inverse made of that
    selected,               \* the arguments of select_subarray
    newsub                  \* what select_subarray gave for them

\* the variables of predict, of line_line_intersection_3d and of normalise
reco_vars == <<hillas_planes, divergent_mode, corrected_angle_dict, calls, ncalls>>
line_vars == <<lines, lines_out>>
vec_vars == <<vec, vec_out>>
sub_vars == <<subarray, tel_list, tel_mask, tel_back, selected, newsub>>

vars == <<reco_vars, line_vars, vec_vars, sub_vars>>

\* the predict calls of one run
MaxCalls == 2
\* the callers that may be inside predict at once
Callers == {1, 2}
\* the events the images are taken from
Events == {1, 2, 3, 4, 5}
\* the events of showers seen in part, and those made up whole, which come
\* with the usual width and without telescopes_pointings
UsualEvents == {1, 2}
WholeEvents == Events \ UsualEvents
\* the lines of one line_line_intersection_3d call
MaxLines == 3

\* the instance as one record
Instance ==
    [ hillas_planes |-> hillas_planes,
      divergent_mode |-> divergent_mode,
      corrected_angle_dict |-> corrected_angle_dict ]

----------------------------------------------------------------------------
(* The arguments a call may be made with                                   *)

\* the key orders of hillas_dict
HillasKeys == { <<>>, <<1>>, <<1, 2>>, <<2, 3>>, <<3, 1>>, <<2, 3, 1>> }

\* the key orders of the calls that interleave
UsualKeys == { <<1, 2>>, <<2, 3, 1>> }

\* a usual width, and the widths the last image of a call may have
UsualWidth == Rat(1, 10)
Widths == { UsualWidth, RZero, NaN, PosInf, NegInf }

\* hillas_dict: the images of one event for the given keys, the last of them
\* with the width w
HillasDict(keys, event, w) ==
    List([i \in 1..Len(keys) |->
        <<keys[i], ImageOf(keys[i], event, IF i = Len(keys) THEN w ELSE UsualWidth)>>])

ArrayPointings == { Zenith }

\* telescopes_pointings: None, all parallel to the array pointing, or
\* telescope 1 apart from the others
PointingArgs(array_pointing) ==
    { [given |-> FALSE, pointings |-> <<array_pointing, array_pointing, array_pointing>>],
      [given |-> TRUE, pointings |-> <<array_pointing, array_pointing, array_pointing>>],
      [given |-> TRUE, pointings |-> <<Level, array_pointing, array_pointing>>] }

----------------
(* The actions of predict                                                  *)

PredictInit ==
    /\ hillas_planes = NewInstance.hillas_planes
    /\ divergent_mode = NewInstance.divergent_mode
    /\ corrected_angle_dict = NewInstance.corrected_angle_dict
    /\ calls = [t \in Callers |-> IdleFrame]
    /\ ncalls = 0

SetInstance(inst) ==
    /\ hillas_planes' = inst.hillas_planes
    /\ divergent_mode' = inst.divergent_mode
    /\ corrected_angle_dict' = inst.corrected_angle_dict

\* caller t enters predict: m is the instance and the frame of the call
Begin(t, m) ==
    /\ SetInstance(m.inst)
    /\ calls' = [calls EXCEPT ![t] = m.frame]
Call(t, hillas_dict, array_pointing, pointings_given, telescopes_pointings) ==
    Begin(t, Enter(Instance, hillas_dict, array_pointing, pointings_given,
                   telescopes_pointings))

\* caller t calls predict, its hillas_dict drawn from the given keys, widths
\* and events
PredictWith(t, keys_of, widths_of, events_of) ==
    /\ calls[t].pc \in {"idle", "done"}
    /\ ncalls < MaxCalls
    /\ \E keys \in keys_of, event \in events_of, w \in widths_of,
          array_pointing \in ArrayPointings :
         \E arg \in PointingArgs(array_pointing) :
            /\ event \in WholeEvents => (w = UsualWidth /\ ~arg.given)
            /\ Call(t, HillasDict(keys, event, w), array_pointing, arg.given,
                 arg.pointings)
    /\ ncalls' = ncalls + 1
    /\ UNCHANGED <<line_vars, vec_vars, sub_vars>>

Predict(t) == PredictWith(t, HillasKeys, Widths, Events)
\* a call that passes the checks
PredictUsual(t) == PredictWith(t, UsualKeys, {UsualWidth}, UsualEvents)

\* caller t's call moves on to m
Advance(t, m) ==
    /\ SetInstance(m.inst)
    /\ calls' = [calls EXCEPT ![t] = m.frame]
    /\ UNCHANGED <<ncalls, line_vars, vec_vars, sub_vars>>

InitializeHillasPlanes(t) ==
    /\ calls[t].pc = "initialize_hillas_planes"
    /\ Advance(t, StepInitializeHillasPlanes(Instance, calls[t]))
EstimateDirection(t) ==
    /\ calls[t].pc = "estimate_direction"
    /\ Advance(t, StepEstimateDirection(Instance, calls[t]))
EstimateCorePosition(t) ==
    /\ calls[t].pc = "estimate_core_position"
    /\ Advance(t, StepEstimateCorePosition(Instance, calls[t]))
EstimateHMax(t) ==
    /\ calls[t].pc = "estimate_h_max"
    /\ Advance(t, StepEstimateHMax(Instance, calls[t]))

CallerNext(t) ==
    \/ Predict(t)
    \/ InitializeHillasPlanes(t)
    \/ EstimateDirection(t)
    \/ EstimateCorePosition(t)
    \/ EstimateHMax(t)

ConcurrentNext(t) ==
    \/ PredictUsual(t)
    \/ InitializeHillasPlanes(t)
    \/ EstimateDirection(t)
    \/ EstimateCorePosition(t)
    \/ EstimateHMax(t)

----------------------------------------------------------------------------
(* line_line_intersection_3d on its own: lines are put together one by one *)
(* and handed to the function                                              *)

\* directions: along x, along z, the diagonal of the x-y plane, a 3-4-5
\* direction, and one that is not of unit length
LineDirections ==
    { SVOf(IV(1, 0, 0)), SVOf(IV(0, 0, 1)), SV(IV(1, 1, 0), R(2)),
      SVOf(<<Rat(3, 5), Rat(4, 5), RZero>>), SVOf(IV(2, 0, 0)) }

\* the points the lines start from
LinePoints == { IV(0, 0, 0), IV(1, 1, 0), IV(4, 5, 0) }

AddLine ==
    /\ lines_out = NoOutcome
    /\ Len(lines) < MaxLines
    /\ \E n \in LineDirections, pos \in LinePoints :
          lines' = Append(lines, [n |-> n, pos |-> pos])
    /\ UNCHANGED <<reco_vars, lines_out, vec_vars, sub_vars>>

Intersect ==
    /\ lines_out = NoOutcome
    /\ lines_out' = line_line_intersection_3d(
                        List([i \in 1..Len(lines) |-> lines[i].n]),
                        List([i \in 1..Len(lines) |-> lines[i].pos]))
    /\ UNCHANGED <<reco_vars, lines, vec_vars, sub_vars>>

----------------------------------------------------------------------------
(* normalise on its own                                                    *)

\* the components of the vectors handed to normalise
Components == { R(-2), R(-1), RZero, ROne, R(2), PosInf }
Vectors == { SVOf(<<x, y, z>>) : x \in Components, y \in Components, z \in Components }

\* normalise(v) is called
Normalise ==
    /\ \E v \in Vectors :
          /\ vec' = v
          /\ vec_out' = Returned(normalise(v))
    /\ UNCHANGED <<reco_vars, line_vars, sub_vars>>

----------------------------------------------------------------------------
(* SubarrayDescription and TelListToMaskTransform on their own             *)

\* the largest telescope id
MaxTelId == 4

\* the telescope ids of the subarrays, in the order of their dicts
SubarrayIds == { <<>>, <<1, 2, 3>>, <<1, 3>>, <<3, 1>>, <<2, 4>> }

\* tel_positions and tel_descriptions for the ids
PositionsOf(ids) == List([k \in 1..Len(ids) |-> <<ids[k], IV(ids[k], -ids[k], 0)>>])
DescriptionsOf(ids) ==
    List([k \in 1..Len(ids) |-> <<ids[k], IF ids[k] = 1 THEN "LST" ELSE "MST">>])

ArrayName == [base |-> "array", selections |-> <<>>]
\* name=None of select_subarray: no name given
NoName == [is_none |-> TRUE, items |-> ""]
NoSelection == [tel_ids |-> <<>>, name |-> NoName]

\* the lists of ids handed to the operations: every list of up to 2 ids, and
\* some of 3
IdLists ==
    UNION { [1..k -> 0..MaxTelId] : k \in 0..2 }
        \cup { <<1, 2, 3>>, <<3, 1, 2>>, <<2, 3, 2>> }

\* SubarrayDescription("array", tel_positions, tel_descriptions)
NewSubarray ==
    /\ \E ids \in SubarrayIds :
          subarray' = SubarrayDescription(ArrayName, PositionsOf(ids),
                                          DescriptionsOf(ids)).value
    /\ tel_list' = None
    /\ tel_mask' = NoOutcome
    /\ tel_back' = NoOutcome
    /\ selected' = NoSelection
    /\ newsub' = NoOutcome
    /\ UNCHANGED <<reco_vars, line_vars, vec_vars>>

\* TelListToMaskTransform(subarray)(value)
Forward ==
    /\ \E value \in {None} \cup {Some(ids) : ids \in IdLists} :
          /\ tel_list' = value
          /\ tel_mask' = TelListToMaskTransform_call(subarray, value)
    /\ tel_back' = NoOutcome
    /\ selected' = NoSelection
    /\ newsub' = NoOutcome
    /\ UNCHANGED <<reco_vars, line_vars, vec_vars, subarray>>

\* TelListToMaskTransform(subarray).inverse(value) on what the transform gave
Inverse ==
    /\ tel_mask.raised = "none"
    /\ tel_back = NoOutcome
    /\ tel_back' = TelListToMaskTransform_inverse(subarray, tel_mask.value)
    /\ UNCHANGED <<reco_vars, line_vars, vec_vars, subarray, tel_list, tel_mask,
                   selected, newsub>>

\* subarray.select_subarray(tel_ids, name)
SelectedWith(ids, name, got) ==
    /\ selected' = [tel_ids |-> ids, name |-> name]
    /\ subarray' = got.self
    /\ newsub' = got.out
SelectSubarray ==
    /\ \E ids \in IdLists, name \in {NoName, Some("newsub")} :
          SelectedWith(ids, name, select_subarray(subarray, ids, name))
    /\ tel_list' = None
    /\ tel_mask' = NoOutcome
    /\ tel_back' = NoOutcome
    /\ UNCHANGED <<reco_vars, line_vars, vec_vars>>

Init ==
    /\ PredictInit
    /\ lines = <<>>
    /\ lines_out = NoOutcome
    /\ vec = SVOf(VZero)
    /\ vec_out = NoOutcome
    /\ subarray = SubarrayDescription(ArrayName, <<>>, <<>>).value
    /\ tel_list = None
    /\ tel_mask = NoOutcome
    /\ tel_back = NoOutcome
    /\ selected = NoSelection
    /\ newsub = NoOutcome

\* one caller: each predict call ends before the next begins
Next == CallerNext(1)
Spec == Init /\ [][Next]_vars

\* two callers on the one instance, their steps interleaved
NextConcurrent == \E t \in Callers : ConcurrentNext(t)
SpecConcurrent == Init /\ [][NextConcurrent]_vars

\* line_line_intersection_3d called once on up to MaxLines lines
NextLines == AddLine \/ Intersect
SpecLines == Init /\ [][NextLines]_vars

\* normalise called on one vector after another
NextVectors == Normalise
SpecVectors == Init /\ [][NextVectors]_vars

\* subarrays built, and the operations called on them
NextSubarray == NewSubarray \/ Forward \/ Inverse \/ SelectSubarray
SpecSubarray == Init /\ [][NextSubarray]_vars

----------------------------------------------------------------------------
(* Properties of predict's checks                                          *)

\* the widths of a call's images
WidthsOf(frame) == {frame.hillas_dict[i][2].width : i \in 1..Len(frame.hillas_dict)}
\* the call has been made
Called(frame) == frame.pc # "idle"
\* the call ended by raising the exception
RaisedBy(frame, exception) == frame.pc = "done" /\ frame.outcome = Raised(exception)
\* the call ended by returning a result
ReturnedBy(frame) == frame.pc = "done" /\ frame.outcome.raised = "none"

\* C1: a predict call whose hillas_dict has fewer than 2 telescopes raises
\* TooFewTelescopesException and returns no result, whatever its other
\* arguments (widths, pointings) are
C1_TooFewTelescopesRaise ==
    \A t \in Callers :
        (Called(calls[t]) /\ Len(calls[t].hillas_dict) < 2)
            => RaisedBy(calls[t], TooFewTelescopesException)

\* a call with one telescope, of width nan, and with telescopes_pointings given
\* has raised TooFewTelescopesException
C1_Witness ==
    \E t \in Callers :
        /\ Len(calls[t].hillas_dict) = 1
        /\ WidthsOf(calls[t]) = {NaN}
        /\ calls[t].pointings_given
        /\ RaisedBy(calls[t], TooFewTelescopesException)

\* C2: a predict call with at least 2 telescopes, one or more of them with
\* width 0, raises InvalidWidthException and returns no result
C2_ZeroWidthRaises ==
    \A t \in Callers :
        (Called(calls[t]) /\ Len(calls[t].hillas_dict) >= 2
                          /\ \E w \in WidthsOf(calls[t]) : IsZeroFloat(w))
            => RaisedBy(calls[t], InvalidWidthException)

\* a call with three telescopes, one of width 0, has raised InvalidWidthException
C2_Witness ==
    \E t \in Callers :
        /\ Len(calls[t].hillas_dict) = 3
        /\ RZero \in WidthsOf(calls[t])
        /\ RaisedBy(calls[t], InvalidWidthException)

\* C3 as amended: a predict call with at least 2 telescopes raises
\* InvalidWidthException whenever a width is nan; when no width is nan or 0 the
\* call raises no InvalidWidthException, also when a width is inf or -inf
C3_NaNWidthRaises ==
    \A t \in Callers :
        (Called(calls[t]) /\ Len(calls[t].hillas_dict) >= 2)
            => /\ (\E w \in WidthsOf(calls[t]) : IsNaN(w))
                     => RaisedBy(calls[t], InvalidWidthException)
               /\ (\A w \in WidthsOf(calls[t]) : ~IsNaN(w) /\ ~IsZeroFloat(w))
                     => ~RaisedBy(calls[t], InvalidWidthException)

\* a call with two telescopes, one of width nan, has raised InvalidWidthException
C3_Witness ==
    \E t \in Callers :
        /\ Len(calls[t].hillas_dict) = 2
        /\ NaN \in WidthsOf(calls[t])
        /\ RaisedBy(calls[t], InvalidWidthException)

\* C3 as claimed: a predict call with at least 2 telescopes raises
\* InvalidWidthException whenever a width is not finite (nan, inf or -inf)
C3_NonFiniteWidthRaises ==
    \A t \in Callers :
        (Called(calls[t]) /\ Len(calls[t].hillas_dict) >= 2
                          /\ \E w \in WidthsOf(calls[t]) : IsSpecial(w))
            => RaisedBy(calls[t], InvalidWidthException)

----------------------------------------------------------------------------
(* Properties of the instance fields across calls                          *)

\* what the call of a frame gives on a newly constructed instance, run alone
Alone(frame) ==
    predict(NewInstance, frame.hillas_dict, frame.array_pointing,
            frame.pointings_given, frame.telescopes_pointings).outcome

\* C4: whatever calls were made before on the instance, a predict call gives
\* what the same arguments give on a newly constructed instance
C4_SameAsOnNewInstance ==
    \A t \in Callers : calls[t].pc = "done" => calls[t].outcome = Alone(calls[t])

\* every telescope of the call points as the array does
PointsAsArray(frame) ==
    \A i \in 1..Len(frame.hillas_dict) :
        frame.telescopes_pointings[frame.hillas_dict[i][1]] = frame.array_pointing
\* the telescopes of the call all point the same way
PointsParallel(frame) ==
    \A i, j \in 1..Len(frame.hillas_dict) :
        frame.telescopes_pointings[frame.hillas_dict[i][1]]
            = frame.telescopes_pointings[frame.hillas_dict[j][1]]

\* C5: when every telescope pointing given to predict equals the array
\* pointing, the corrected angle recorded for each telescope of the call is
\* the psi of its image
C5_EqualPointingsKeepPsi ==
    \A t \in Callers :
        (calls[t].pc = "estimate_direction" /\ calls[t].pointings_given
                                            /\ PointsAsArray(calls[t]))
            => \A i \in 1..Len(calls[t].hillas_dict) :
                   /\ calls[t].hillas_dict[i][1] \in KeySet(corrected_angle_dict)
                   /\ Get(corrected_angle_dict, calls[t].hillas_dict[i][1])
                          = calls[t].hillas_dict[i][2].psi

\* C6: in a call whose telescopes_pointings is None or whose pointings are all
\* equal, the correction is not active: when estimate_core_position runs,
\* divergent_mode is off and the angles it takes are the psi of the images
C6_CorrectionOnlyWhenPointingsDiffer ==
    \A t \in Callers :
        (calls[t].pc = "estimate_core_position"
            /\ (~calls[t].pointings_given \/ PointsParallel(calls[t])))
            => /\ ~divergent_mode
               /\ PsiOf(calls[t].hillas_dict, divergent_mode, corrected_angle_dict)
                      = NativePsi(calls[t].hillas_dict)

\* C7: when estimate_core_position reads corrected_angle_dict, its keys are
\* the telescope ids of this call's hillas_dict and no others
C7_CorrectionTableOfThisCall ==
    \A t \in Callers :
        (calls[t].pc = "estimate_core_position" /\ divergent_mode)
            => KeySet(corrected_angle_dict) = KeySet(calls[t].hillas_dict)

\* C8: of two predict calls on one instance whose steps interleave, each
\* gives what it gives when run alone
C8_InterleavedAsAlone ==
    /\ calls[1].pc = "done" => calls[1].outcome = Alone(calls[1])
    /\ calls[2].pc = "done" => calls[2].outcome = Alone(calls[2])

----------------------------------------------------------------------------
(* Properties of the result                                                *)

\* the intensities of the images added up
RECURSIVE TotalIntensity(_)
TotalIntensity(hillas_dict) ==
    IF hillas_dict = <<>> THEN RZero
    ELSE RAdd(Head(hillas_dict)[2].intensity, TotalIntensity(Tail(hillas_dict)))

\* C9: every result predict returns has is_valid = True, tel_ids the keys of
\* the call's hillas_dict in their order, and average_intensity the mean of the
\* intensities of the call's images
C9_ReturnedResultIsValid ==
    \A t \in Callers :
        ReturnedBy(calls[t])
            => /\ calls[t].outcome.value.is_valid = TRUE
               /\ Len(calls[t].outcome.value.tel_ids) = Len(calls[t].hillas_dict)
               /\ \A i \in 1..Len(calls[t].hillas_dict) :
                      calls[t].outcome.value.tel_ids[i] = calls[t].hillas_dict[i][1]
               /\ RMul(calls[t].outcome.value.average_intensity,
                       R(Len(calls[t].hillas_dict)))
                      = TotalIntensity(calls[t].hillas_dict)

\* a call with the telescopes 2, 3, 1 has returned a result with these
\* tel_ids and the mean intensity 2
C9_Witness ==
    \E t \in Callers :
        /\ ReturnedBy(calls[t])
        /\ Keys(calls[t].hillas_dict) = <<2, 3, 1>>
        /\ calls[t].outcome.value.tel_ids = <<2, 3, 1>>
        /\ calls[t].outcome.value.average_intensity = R(2)
        /\ calls[t].outcome.value.is_valid

----------------------------------------------------------------------------
(* Properties of line_line_intersection_3d                                 *)

\* the line passes through the point
PassesThrough(line, point) == VIsZero(VCross(VSub(point, line.pos), line.n.v))
\* all lines have the same direction, up to its sign
AllParallel(ls) ==
    \A i, j \in 1..Len(ls) : VIsZero(VCross(ls[i].n.v, ls[j].n.v))
\* two lines or more, of unit directions that are not all parallel, all
\* passing through the point
MeetAt(ls, point) ==
    /\ Len(ls) >= 2
    /\ \A i \in 1..Len(ls) : SVIsUnit(ls[i].n) /\ PassesThrough(ls[i], point)
    /\ ~AllParallel(ls)

\* C10: given two or more lines of unit directions, not all parallel, through
\* one common point, line_line_intersection_3d returns that point
C10_CommonPointReturned ==
    lines_out # NoOutcome
        => \A point \in LinePoints :
               MeetAt(lines, point) => lines_out = Returned(point)

\* three lines, one of them along the diagonal and one not starting at
\* (1, 1, 0), meet at (1, 1, 0) and the function has returned that point
C10_Witness ==
    /\ Len(lines) = 3
    /\ MeetAt(lines, IV(1, 1, 0))
    /\ \E i \in 1..Len(lines) : lines[i].n.s = R(2)
    /\ \E i \in 1..Len(lines) : lines[i].pos # IV(1, 1, 0)
    /\ lines_out = Returned(IV(1, 1, 0))

\* C11: called with one line or more whose directions are all parallel,
\* line_line_intersection_3d fails with LinAlgError and returns no point
C11_AllParallelFails ==
    (lines_out # NoOutcome /\ Len(lines) >= 1 /\ AllParallel(lines))
        => lines_out = Raised(LinAlgError)

----------------------------------------------------------------------------
(* Properties of normalise                                                 *)

\* C12: normalise applied to a zero vector raises nothing and returns the
\* vector it was given, unchanged
C12_ZeroVectorReturnedUnchanged ==
    (vec_out # NoOutcome /\ VIsZero(vec.v)) => vec_out = Returned(vec)

----------------------------------------------------------------------------
(* Properties of the whole chain                                           *)

\* the ground point and the sky direction the made-up shower is built for
ChosenCore == <<R(0), R(0)>>
ChosenDirection == SVOf(<<Rat(-3, 5), RZero, Rat(4, 5)>>)

\* the main axis of every image of the call, drawn in the tilted frame from
\* the telescope's place, passes through the ground point
AxesPointAt(frame, core) ==
    \A i \in 1..Len(frame.hillas_dict) :
        VIsZero(VCross(
            VSub(GroundToTilted(<<core[1], core[2], RZero>>, frame.array_pointing),
                 GroundToTilted(TelPosition(frame.hillas_dict[i][1]),
                                frame.array_pointing)),
            CosSin0(frame.hillas_dict[i][2].psi).v))
\* the centre of gravity of every image of the call is seen in the sky direction
CentroidsPointAt(frame, direction) ==
    \A i \in 1..Len(frame.hillas_dict) :
        CogCoord(frame.hillas_dict[i][1], frame.hillas_dict[i][2],
                 frame.telescopes_pointings) = direction
\* a call with the noiseless images of 3 telescopes or more built for the
\* ground point and the sky direction
BuiltFor(frame, core, direction) ==
    /\ Len(frame.hillas_dict) >= 3
    /\ WidthsOf(frame) = {UsualWidth}
    /\ AxesPointAt(frame, core)
    /\ CentroidsPointAt(frame, direction)

\* C13: a predict call with the images of 3 telescopes or more, built so that
\* all main axes point at a chosen ground point and all centres of gravity at
\* a chosen sky direction, returns that core position and that direction
C13_RoundTrip ==
    \A t \in Callers :
        (calls[t].pc = "done" /\ BuiltFor(calls[t], ChosenCore, ChosenDirection))
            => /\ ReturnedBy(calls[t])
               /\ calls[t].outcome.value.core_x = ChosenCore[1]
               /\ calls[t].outcome.value.core_y = ChosenCore[2]
               /\ calls[t].outcome.value.alt_az = ChosenDirection

\* what the subarray holds
IdsOf(self) == { self.tels[i][1] : i \in 1..Len(self.tels) }
Listed(ids) == { ids[k] : k \in 1..Len(ids) }
LargestId(self) == CHOOSE m \in IdsOf(self) : \A n \in IdsOf(self) : n <= m

\* C14: tel_ids_to_mask(ids) returns a boolean array of length num_tels whose
\* entry at index i is True exactly when the telescope stored at index i has
\* its id in ids, for every list of ids between 0 and the largest telescope
\* id of the subarray, ids in gaps of the id set and the empty list included.
C14_MaskMarksListedIds ==
    (/\ tel_mask # NoOutcome
     /\ ~tel_list.is_none
     /\ num_tels(subarray) >= 1
     /\ \A id \in Listed(tel_list.items) : 0 <= id /\ id <= LargestId(subarray))
    => /\ tel_mask.raised = "none"
       /\ Len(tel_mask.value.items) = num_tels(subarray)
       /\ \A i \in 1..num_tels(subarray) :
              tel_mask.value.items[i] <=> (subarray.tels[i][1] \in Listed(tel_list.items))

\* C15: tel_index_array[tel_id] equals tel_indices[tel_id] for each telescope
\* id of the subarray, tel_indices numbers the telescopes 0..num_tels-1 in
\* insertion order, and tel_index_array holds -1 at every index up to the
\* largest id that is not a telescope id.
C15_IndexArrayAgrees ==
    /\ \A ii \in 1..num_tels(subarray) :
           Get(tel_indices(subarray), tel_ids(subarray)[ii]) = ii - 1
    /\ num_tels(subarray) >= 1 =>
           /\ tel_index_array(subarray).raised = "none"
           /\ Len(tel_index_array(subarray).value) = LargestId(subarray) + 1
           /\ \A id \in 0..LargestId(subarray) :
                  NpGet(tel_index_array(subarray).value, id)
                      = IF id \in IdsOf(subarray)
                        THEN Get(tel_indices(subarray), id) ELSE -1
C15_Witness ==
    /\ tel_ids(subarray) = <<3, 1>>
    /\ tel_index_array(subarray) = Returned(<<-1, 1, -1, 0>>)

\* C16: for every subset ids of a subarray's telescope ids,
\* tel_mask_to_tel_ids(tel_ids_to_mask(ids)), and likewise the inverse of
\* TelListToMaskTransform applied to the transform of ids, returns exactly the
\* same set of telescope ids, and a None value passes through both directions
\* as None.
C16_MaskRoundTrip ==
    /\ (tel_mask # NoOutcome /\ tel_list.is_none)
           => /\ tel_mask = Returned(None)
              /\ tel_back # NoOutcome => tel_back = Returned(None)
    /\ (/\ tel_mask # NoOutcome
        /\ ~tel_list.is_none
        /\ Listed(tel_list.items) \subseteq IdsOf(subarray))
           => /\ tel_mask.raised = "none"
              /\ tel_back # NoOutcome =>
                     /\ tel_back.raised = "none"
                     /\ ~tel_back.value.is_none
                     /\ Listed(tel_back.value.items) = Listed(tel_list.items)

\* what select_subarray(ids) of the subarray original is to give: the new
\* subarray, and the subarray as it is left
AsAsked(original, ids, new, left) ==
    /\ new.raised = "none"
    /\ tel_ids(new.value) = ids
    /\ \A k \in 1..Len(ids) :
           /\ Get(tel_indices(new.value), ids[k]) = k - 1
           /\ Get(new.value.positions, ids[k]) = Get(original.positions, ids[k])
           /\ Get(new.value.tels, ids[k]) = Get(original.tels, ids[k])
    /\ left = original
Distinct(ids) == Cardinality(Listed(ids)) = Len(ids)

\* C17, as stated: select_subarray(ids) returns a new subarray whose telescope
\* ids are exactly ids, indexed 0..len(ids)-1 in the order given, with the
\* positions and descriptions those ids have in the original, and leaves the
\* original subarray unchanged.
C17_SelectAsListed ==
    [][(newsub' # NoOutcome /\ Listed(selected'.tel_ids) \subseteq IdsOf(subarray))
          => AsAsked(subarray, selected'.tel_ids, newsub', subarray')]_vars

\* C17, amended: the same for a list ids in which no id is repeated.
C17_SelectDistinctAsListed ==
    [][(/\ newsub' # NoOutcome
        /\ Listed(selected'.tel_ids) \subseteq IdsOf(subarray)
        /\ Distinct(selected'.tel_ids))
          => AsAsked(subarray, selected'.tel_ids, newsub', subarray')]_vars
C17_Witness ==
    /\ tel_ids(subarray) = <<1, 2, 3>>
    /\ selected.tel_ids = <<3, 1>>
    /\ newsub.raised = "none"
    /\ tel_ids(newsub.value) = <<3, 1>>

\* the crossing of two plane normals, negated when its z-component is negative,
\* and the sum of the crossings of all pairs i < j, each scaled by the product
\* of the weights of its two planes, added to acc
Canonical(n1, n2) ==
    IF RLess(SVCross(n1, n2).v[3], RZero) THEN SVNeg(SVCross(n1, n2)) ELSE SVCross(n1, n2)
RECURSIVE PairSum(_, _, _, _)
PairSum(planes, i, j, acc) ==
    IF i >= Len(planes) THEN acc
    ELSE IF j > Len(planes) THEN PairSum(planes, i + 1, i + 2, acc)
    ELSE PairSum(planes, i, j + 1,
             SVAdd(acc, SVScale(RMul(planes[i].weight, planes[j].weight),
                                Canonical(planes[i].norm, planes[j].norm))))
EqualPositiveWeights(planes) ==
    /\ Len(planes) = 2
    /\ planes[1].weight = planes[2].weight
    /\ RLess(RZero, planes[1].weight)
    /\ ~IsSpecial(planes[1].weight)

C18_WitnessOnePair ==
    \E t \in Callers :
        /\ calls[t].pc = "estimate_core_position"
        /\ EqualPositiveWeights(Values(hillas_planes))
        /\ calls[t].direction[1] # Inexact
        /\ calls[t].direction[1] # NaNVec

\* the pairs of planes estimate_direction goes through, the canonicalised
\* crossing of a pair, and two vectors that point opposite ways
PlanePairs == { p \in (1..Len(hillas_planes)) \X (1..Len(hillas_planes)) : p[1] < p[2] }
UpperCrossing(p) == Upper(SVCross(hillas_planes[p[1]][2].norm, hillas_planes[p[2]][2].norm))
Opposite(c1, c2) == VIsZero(VCross(c1.v, c2.v)) /\ RLess(VDot(c1.v, c2.v), RZero)

\* C19: in estimate_direction every pairwise crossing is canonicalised to the
\* upper solution before weighting: every canonicalised crossing has a
\* z-component >= 0, and no two pairs contribute opposite intersections of
\* the same great circles.
C19_CrossingsUpper ==
    \A t \in Callers :
        calls[t].pc = "estimate_core_position" =>
            /\ \A p \in PlanePairs :
                   /\ ~IsNaN(UpperCrossing(p).v[3])
                   /\ ~RLess(UpperCrossing(p).v[3], RZero)
            /\ \A p \in PlanePairs, q \in PlanePairs :
                   ~Opposite(UpperCrossing(p), UpperCrossing(q))

\* the off-angles of a direction: its angles to the weighted crossings of the
\* pairs of planes, in the order of the pairs
OffAngleOf(result, p1, p2) ==
    angle(result, SVScale(RMul(p1.weight, p2.weight), Upper(SVCross(p1.norm, p2.norm))))
OffAnglesOf(result) ==
    { OffAngleOf(result, hillas_planes[p[1]][2], hillas_planes[p[2]][2]) : p \in PlanePairs }
IsAverage(e) == "mean_of" \in DOMAIN e
PlainMean(e) == \A k \in 1..Len(e.weights) : e.weights[k] = e.weights[1]

\* C20: the angular error estimate of estimate_direction is the weighted
\* average of the per-pair off-angles in which every pair has the same fixed
\* weight 3, so it is the plain arithmetic mean of the off-angles whatever the
\* plane weights are.
C20_ErrorIsPlainMean ==
    \A t \in Callers :
        calls[t].pc = "estimate_core_position" =>
            IF IsAverage(calls[t].direction[2])
            THEN /\ Len(calls[t].direction[2].weights) = Cardinality(PlanePairs)
                 /\ Len(calls[t].direction[2].mean_of) = Cardinality(PlanePairs)
                 /\ \A k \in 1..Len(calls[t].direction[2].weights) :
                        calls[t].direction[2].weights[k] = 3
                 /\ PlainMean(calls[t].direction[2])
                 /\ { calls[t].direction[2].mean_of[k] :
                          k \in 1..Len(calls[t].direction[2].mean_of) }
                        = OffAnglesOf(calls[t].direction[1])
            ELSE \/ /\ calls[t].direction[2] = NaNAngle
                    /\ NaNAngle \in OffAnglesOf(calls[t].direction[1])
                 \/ OffAnglesOf(calls[t].direction[1]) = {calls[t].direction[2]}
C20_Witness ==
    \E t \in Callers :
        /\ calls[t].pc = "estimate_core_position"
        /\ IsAverage(calls[t].direction[2])
        /\ Len(hillas_planes) = 3
        /\ \E i \in 1..3 : hillas_planes[i][2].weight # hillas_planes[1][2].weight

\* the angles of a direction to the unweighted canonicalised crossings
UnweightedOffAnglesOf(result) == { angle(result, UpperCrossing(p)) : p \in PlanePairs }

\* C21: each off-angle entering the error estimate is the angle between the
\* final direction and that pair's unweighted canonicalised crossing, for every
\* pair of planes, pairs with a plane of weight 0 included: the error estimate
\* is the average of those angles.
C21_OffAnglesUnweighted ==
    \A t \in Callers :
        calls[t].pc = "estimate_core_position" =>
            IF IsAverage(calls[t].direction[2])
            THEN { calls[t].direction[2].mean_of[k] :
                      k \in 1..Len(calls[t].direction[2].mean_of) }
                    = UnweightedOffAnglesOf(calls[t].direction[1])
            ELSE \/ /\ calls[t].direction[2] = NaNAngle
                    /\ NaNAngle \in UnweightedOffAnglesOf(calls[t].direction[1])
                 \/ UnweightedOffAnglesOf(calls[t].direction[1]) = {calls[t].direction[2]}

\* the lines estimate_core_position hands to line_line_intersection_3d, which
\* zips the directions with the positions, for the call of the given frame
LinesPassed(frame) ==
    List([i \in 1..Min(Len(PsiOf(frame.hillas_dict, divergent_mode, corrected_angle_dict)),
                       Len(hillas_planes)) |->
        << UvwVectors(PsiOf(frame.hillas_dict, divergent_mode, corrected_angle_dict))[i],
           TiltedPositions(hillas_planes, frame.array_pointing)[i] >>])
\* the line of one telescope of the call: its axis angle, corrected in
\* divergent mode, with its position in the tilted frame
OwnLine(frame, tel_id, moments) ==
    << CosSin0(IF divergent_mode
               THEN AnglePsiCorr(tel_id, moments, frame.telescopes_pointings,
                                 frame.array_pointing)
               ELSE moments.psi),
       GroundToTilted(TelPosition(tel_id), frame.array_pointing) >>
OwnLines(frame) ==
    { OwnLine(frame, frame.hillas_dict[i][1], frame.hillas_dict[i][2]) :
          i \in 1..Len(frame.hillas_dict) }

\* C22: in every predict call, after any earlier calls on the instance, each
\* line estimate_core_position passes to line_line_intersection_3d pairs the
\* axis angle and the tilted-frame position of the same telescope of this
\* call, and there is exactly one line per telescope of the call's hillas_dict.
C22_LinesOfOwnTelescopes ==
    \A t \in Callers :
        calls[t].pc = "estimate_core_position" =>
            /\ Len(LinesPassed(calls[t])) = Len(calls[t].hillas_dict)
            /\ { LinesPassed(calls[t])[i] : i \in 1..Len(LinesPassed(calls[t])) }
                   = OwnLines(calls[t])

\* the planes on the instance are those of the call of the frame: one plane per
\* telescope of its hillas_dict, built from its image
PlanesOfCall(frame) ==
    /\ Keys(hillas_planes) = Keys(frame.hillas_dict)
    /\ \A i \in 1..Len(frame.hillas_dict) :
           hillas_planes[i][2] = PlaneOf(frame.hillas_dict[i][1], frame.hillas_dict[i][2],
                                        frame.telescopes_pointings)
InEstimators(frame) ==
    frame.pc \in {"estimate_direction", "estimate_core_position", "estimate_h_max"}

PlanesHeld == { hillas_planes[i][2] : i \in 1..Len(hillas_planes) }

\* C24: for every HillasPlane built from two non-coincident directions, the
\* vectors a, b, c and norm all have unit length.
C24_PlaneVectorsUnit ==
    \A plane \in PlanesHeld :
        plane.a # plane.b =>
            /\ SVIsUnit(plane.a)
            /\ SVIsUnit(plane.b)
            /\ SVIsUnit(plane.c)
            /\ SVIsUnit(plane.norm)

\* the call of the frame was refused by the checks of predict
Refused(frame) ==
    /\ frame.pc = "done"
    /\ frame.outcome.raised \in {TooFewTelescopesException, InvalidWidthException}

\* C25: when predict raises TooFewTelescopesException or InvalidWidthException,
\* the instance fields hillas_planes, divergent_mode and corrected_angle_dict
\* are left exactly as they were before the call, whether or not
\* telescopes_pointings was supplied.
C25_RefusedCallLeavesInstance ==
    [][\A t \in Callers :
          (ncalls' = ncalls + 1 /\ calls'[t] # calls[t] /\ Refused(calls'[t]))
              => /\ hillas_planes' = hillas_planes
                 /\ divergent_mode' = divergent_mode
                 /\ corrected_angle_dict' = corrected_angle_dict]_vars
C25_Witness ==
    \E t \in Callers :
        /\ Refused(calls[t])
        /\ calls[t].pointings_given
        /\ ncalls = 2
        /\ hillas_planes # <<>>
        /\ ~divergent_mode

\* this step is a predict call with telescopes_pointings that passes the checks
PassesWithPointings ==
    \E t \in Callers :
        /\ ncalls' = ncalls + 1
        /\ calls'[t] # calls[t]
        /\ calls'[t].pc = "initialize_hillas_planes"
        /\ calls'[t].pointings_given

\* C26: divergent_mode starts False, becomes True in the first predict call
\* that passes validation with telescopes_pointings not None, and no later
\* predict call, one with telescopes_pointings = None included, sets it back
\* to False.
C26_DivergentModeMonotone ==
    /\ ~divergent_mode
    /\ [][/\ divergent_mode => divergent_mode'
          /\ PassesWithPointings => divergent_mode'
          /\ (~divergent_mode /\ divergent_mode') => PassesWithPointings]_vars
C26_Witness ==
    \E t \in Callers :
        /\ divergent_mode
        /\ InEstimators(calls[t])
        /\ ~calls[t].pointings_given

\* the orders the planes on the instance can be gone through in
Orders == { f \in [1..Len(hillas_planes) -> 1..Len(hillas_planes)] :
                \A i, j \in 1..Len(hillas_planes) : f[i] = f[j] => i = j }
Reordered(f) == List([i \in 1..Len(hillas_planes) |-> hillas_planes[f[i]]])

\* C27: the direction returned by estimate_direction does not depend on the
\* iteration order of the planes: for every permutation of the same planes the
\* result is the same, also when some pairwise crossing has a z-component of
\* exactly 0.
C27_DirectionOrderFree ==
    \A t \in Callers :
        calls[t].pc = "estimate_core_position" =>
            \A f \in Orders :
                /\ estimate_direction(Reordered(f)).raised = "none"
                /\ estimate_direction(Reordered(f)).value[1] = calls[t].direction[1]

\* the angle 0: arccos(1)
ZeroAngle == AngleOfCos(1, ROne)
\* exactly two planes, their normals not parallel, their weights positive
TwoCrossingPlanes ==
    /\ Len(hillas_planes) = 2
    /\ ~IsNaN(UpperCrossing(<<1, 2>>).v[3])
    /\ ~VIsZero(UpperCrossing(<<1, 2>>).v)
    /\ \A i \in 1..2 : /\ RLess(RZero, hillas_planes[i][2].weight)
                        /\ ~IsSpecial(hillas_planes[i][2].weight)

\* C28: for exactly two planes with non-parallel normals and positive weights
\* the error estimate returned by estimate_direction is 0, whatever the
\* geometry.
C28_TwoPlanesNoError ==
    \A t \in Callers :
        (calls[t].pc = "estimate_core_position" /\ TwoCrossingPlanes)
            => calls[t].direction[2] = ZeroAngle
C28_Witness ==
    \E t \in Callers :
        /\ calls[t].pc = "estimate_core_position"
        /\ TwoCrossingPlanes
        /\ ~RIsZero(calls[t].direction[1].v[2])
        /\ calls[t].direction[2] = ZeroAngle

\* all plane weights are non-negative numbers and the weighted sum of the
\* crossings is a vector other than zero
WeightsNonNegative ==
    \A plane \in PlanesHeld : ~IsSpecial(plane.weight) /\ ~RLess(plane.weight, RZero)
SumNotZero ==
    /\ PairSum(Values(hillas_planes), 1, 2, SVOf(VZero)) # Inexact
    /\ ~IsNaN(PairSum(Values(hillas_planes), 1, 2, SVOf(VZero)).v[3])
    /\ ~VIsZero(PairSum(Values(hillas_planes), 1, 2, SVOf(VZero)).v)
NotBelow(z) == ~IsNaN(z) /\ ~RLess(z, RZero)

\* C29: when all plane weights are non-negative and the weighted sum of the
\* crossings is not the zero vector, the direction returned by
\* estimate_direction has a z-component >= 0, and so has the direction predict
\* reports: the altitude is never below the horizon.
C29_DirectionNotBelowHorizon ==
    \A t \in Callers :
        (WeightsNonNegative /\ SumNotZero) =>
            /\ calls[t].pc \in {"estimate_core_position", "estimate_h_max"}
                   => NotBelow(calls[t].direction[1].v[3])
            /\ ReturnedBy(calls[t]) => NotBelow(calls[t].outcome.value.alt_az.v[3])
C29_Witness ==
    \E t \in Callers :
        /\ ReturnedBy(calls[t])
        /\ WeightsNonNegative
        /\ SumNotZero
        /\ \E p \in PlanePairs :
               RLess(SVCross(hillas_planes[p[1]][2].norm, hillas_planes[p[2]][2].norm).v[3], RZero)
        /\ RLess(RZero, calls[t].outcome.value.alt_az.v[3])

\* C30: for every HillasPlane built from two non-parallel directions a and b
\* the plane normal is orthogonal to both a and b, and parallel to a x b.
C30_NormOrthogonal ==
    \A plane \in PlanesHeld :
        ~VIsZero(VCross(plane.a.v, plane.b.v)) =>
            /\ RIsZero(VDot(plane.a.v, plane.norm.v))
            /\ RIsZero(VDot(plane.b.v, plane.norm.v))
            /\ ~VIsZero(plane.norm.v)
            /\ VIsZero(VCross(plane.norm.v, VCross(plane.a.v, plane.b.v)))
C30_Witness ==
    \E plane \in PlanesHeld :
        /\ ~VIsZero(VCross(plane.a.v, plane.b.v))
        /\ ~RIsZero(VDot(plane.a.v, plane.b.v))
        /\ SVIsUnit(plane.norm)
        /\ plane.weight = R(6)

=============================================================================
